---- MODULE Spec2Model ----
(***************************************************************************)
(* code_gen (tx_tools): the symbolic I/Q waveform generator of             *)
(* src/src/code_gen.c as a state machine.                                  *)
(*                                                                         *)
(* One run of the program: main parses its arguments, validates the       *)
(* output block size, installs the signal handler and seeds rand; gen      *)
(* opens the destination, allocates the block buffer and walks the tone    *)
(* timeline; add_sine / add_noise emit one I/Q pair per loop iteration     *)
(* through signal_out, which stores two bytes and writes the block when    *)
(* the cursor equals the block size.  The signal handler may run between   *)
(* any two steps once it is installed.                                     *)
(*                                                                         *)
(* Real values are fixed point: amplitudes in 1/1000 (milli), the ramp     *)
(* factors in 1/100, as the code's 1.0 / att_steps.                        *)
(***************************************************************************)
EXTENDS Integers, Sequences, FiniteSets, TLC

(***************************************************************************)
(* Program constants                                                       *)
(***************************************************************************)
DEFAULT_SAMPLE_RATE == 1000000
DEFAULT_BUF_LENGTH == 16384
MINIMAL_BUF_LENGTH == 512
MAXIMAL_BUF_LENGTH == 4194304
\* fileno(stdout)
STDOUT_FILENO == 1
\* the level below which a tone is noise only (tone->db < -24)
NOISE_ONLY_DB == 0 - 24
\* att_steps of add_sine
att_steps == 100

(***************************************************************************)
(* Bounds of the model                                                     *)
(***************************************************************************)
\* seeds given with -S are 1..MaxSeed
MaxSeed == 2
\* how many signals the environment delivers during one run
MaxSignals == 1
\* the sample values given to encode are -MaxMilli .. MaxMilli, in 1/1000
MaxMilli == 1500
\* the sample counts given to the ramp are 0 .. MaxRampTotal
MaxRampTotal == 215

(***************************************************************************)
(* Inputs: command lines                                                   *)
(***************************************************************************)
Tone(hz, us, db) == [hz |-> hz, us |-> us, db |-> db]

\* The tone timelines handed over by the parser (symbol->tone): each holds a
\* terminator (us = 0); the third has events stored after its terminator.
Timelines ==
    { << Tone(1000, 300, 0), Tone(0, 215, -30), Tone(0, 0, 0) >>,
      << Tone(10000, 7, -25), Tone(2000, 521, -24), Tone(0, 0, 0) >>,
      << Tone(5000, 3, -40), Tone(0, 0, 0), Tone(1000, 4, 0) >>,
      << Tone(0, 0, 0) >> }

\* the -s values paired with the timelines above
SampleRates == {DEFAULT_SAMPLE_RATE, 500000}

\* A command line gives a timeline at the default sample rate, or the second
\* timeline at half of it (sample counts are then rounded down).
RunInputs ==
    { c \in [symbol : Timelines, sample_rate : SampleRates] :
        c.sample_rate = DEFAULT_SAMPLE_RATE \/ c.symbol[1].us = 7 }

\* -b values; << >> is "no -b option"
BlockSizeArgs ==
    { << >>, << 0 - 1 >>, << 511 >>, << 512 >>, << 513 >>,
      << 4194304 >>, << 4194305 >> }

\* the positional arguments: none, "-", a file path, or two of them
Filenames == { "", "-", "out.cu8", "out.cu8 extra" }

(***************************************************************************)
(* Pure functions                                                          *)
(***************************************************************************)
\* C's conversion of a quotient to an integer type truncates toward zero
Trunc(n, d) == IF n >= 0 THEN n \div d ELSE 0 - ((0 - n) \div d)

\* (size_t)atofs(optarg): a negative value converted to size_t is undefined;
\* builds produce 0 (saturating conversion) or a value near SIZE_MAX
\* (wrapping conversion), written here as the largest integer of the model.
to_size_t(v) == IF v >= 0 THEN {v} ELSE {0, 2147483647 + v}

\* the range check without its upper limit
BlockSizeOutOfRange_NoUpper(n) == n < MINIMAL_BUF_LENGTH
\* main's range check of out_block_size
BlockSizeOutOfRange(n) == n < MINIMAL_BUF_LENGTH \/ n > MAXIMAL_BUF_LENGTH

\* bound(): clamp to a byte
bound(x) == IF x < 0 THEN 0 ELSE IF x > 255 THEN 255 ELSE x

\* (uint8_t)bound((int)((v + 1.0) * 127.5)) of signal_out, v in milli
encode(v) == bound(Trunc((v + 1000) * 1275, 10000))

\* (int)((V + 1.0) * 127.5) for a whole number V: the product truncated
\* toward zero while it fits an int (it is 2147483647.5 for V + 1 =
\* 16843009); the conversion of a larger double is undefined and gives
\* INT_MIN where the conversion instruction reports overflow, INT_MAX
\* where it saturates; below the range both give INT_MIN
int_of_scaled_whole(V) ==
    LET W == V + 1
    IN  IF W > 16843009 THEN {0 - 2147483647 - 1, 2147483647}
        ELSE IF W < 0 - 16843009 THEN {0 - 2147483647 - 1}
        ELSE IF W >= 0 THEN {W * 127 + (W \div 2)}
        ELSE {0 - ((0 - W) * 127 + ((0 - W) \div 2))}

\* the bytes signal_out can store for a whole-numbered sample value V
encode_whole(V) == { bound(c) : c \in int_of_scaled_whole(V) }

\* pow(10.0, 1.0 / 20.0 * level) in milli, level in 1/1000 dB, for the
\* levels of LevelArgs
pow10_20(level) ==
    CASE level = 0 -> 1000
      [] level = -1000 -> 891
      [] level = -3000 -> 708
      [] level = -6000 -> 501
      [] level = -10000 -> 316
      [] level = -20000 -> 100
      [] level = -40000 -> 10
      [] OTHER -> 1

\* a tone level that takes 0 for a multiplier
sine_pk_level_ZeroIsMultiplier(arg) == IF arg < 0 THEN pow10_20(arg) ELSE arg
\* sine_pk_level: the -g argument, in milli
sine_pk_level(arg) == IF arg <= 0 THEN pow10_20(arg) ELSE arg

\* noise_pp_level: the -n / -N argument, in milli, scaled by
\* 2 * sqrt(1/2 * 3/2) = 1.732
noise_pp_level(arg) ==
    LET level == IF arg < 0 THEN pow10_20(arg) ELSE arg
    IN  (level * 1732) \div 1000

\* the -g / -n / -N arguments, in 1/1000
LevelArgs ==
    { -40000, -20000, -10000, -6000, -3000, -1000, 0, 1, 500, 1000, 2000 }

\* whole-numbered sample values far outside [-1, 1], as a gain of 2e7 gives
WholeSamples ==
    { -20000000, -16843011, -300, -2, 2, 300, 16843008, 16843009, 20000000 }

\* rand(): the C library's generator, a linear congruential sequence
RAND_MAX == 65536
rand_next(s) == (s * 75 + 74) % 65537

\* (randf() - 0.5) * amplitude, for the draw r; all in milli
noise_term(r, amp) == ((((r * 1000) \div RAND_MAX) - 500) * amp) \div 1000

\* (size_t)(time_us * sample_rate / 1000000)
sample_count(time_us, rate) == (time_us * rate) \div 1000000

\* lut_oscc / lut_oscs (fast_osc.h): a unit-amplitude sinusoid sampled at
\* 16 phases per period, in milli
CosTable ==
    << 1000, 924, 707, 383, 0, -383, -707, -924,
       -1000, -924, -707, -383, 0, 383, 707, 924 >>
osc_phase(hz, rate, t) == ((hz * t * 16) \div rate) % 16
lut_oscc(hz, rate, t) == CosTable[osc_phase(hz, rate, t) + 1]
lut_oscs(hz, rate, t) == CosTable[((osc_phase(hz, rate, t) + 12) % 16) + 1]

\* db_to_mag (fast_osc.h): 10^(db/20) in milli, for the levels of the timelines
db_to_mag(db) ==
    CASE db >= 0 -> 1000
      [] db >= -6 -> 501
      [] db >= -12 -> 251
      [] db >= -24 -> 63
      [] OTHER -> 32

\* the text printf prints at the end of gen, as bytes: "Time elapsed in ms: ",
\* the whole milliseconds ms, ".000000" and a newline
ElapsedText(ms) ==
    << 84, 105, 109, 101, 32, 101, 108, 97, 112, 115, 101, 100, 32, 105, 110,
       32, 109, 115, 58, 32, 48 + ms, 46, 48, 48, 48, 48, 48, 48, 10 >>

\* a tone loop that tests the terminator alone
LoopContinues_NoCancel(us, de) == us # 0
\* the tone loop's condition: tone->us && !do_exit
LoopContinues(us, de) == us # 0 /\ ~de

\* a branch test that takes the level -24 for noise only
NoiseOnly_Inclusive(db) == db <= NOISE_ONLY_DB
\* gen's branch: tone->db < -24 is synthesized by add_noise
NoiseOnly(db) == db < NOISE_ONLY_DB

\* a full-block test that fires one pair late
BlockFull_Late(pos, size) == pos = size + 2
\* signal_out's test for a full block
BlockFull(pos, size) == pos = size

(***************************************************************************)
(* State                                                                   *)
(***************************************************************************)
VARIABLES
    pc,             \* where the program is
    arg_b,          \* the -b argument, << >> when absent
    filename,       \* the positional arguments
    symbol,         \* symbol->tone, the timeline
    sample_rate,
    rand_seed,
    noise_floor,    \* milli, peak-to-peak
    noise_signal,   \* milli, peak-to-peak
    gain,           \* milli
    out_block_size,
    out_block_pos,
    out_block,      \* the bytes stored at indices 0 .. out_block_pos - 1
    heap,           \* "none", "allocated", "null", "freed"
    fd,
    do_exit,
    handlers,       \* sigaction has installed sighandler
    tone,           \* index of the current tone in symbol
    t,              \* the sample index of add_sine / add_noise
    end,            \* the sample count of the current tone
    rand_state,
    out_stdout,     \* the bytes received by standard output
    out_file,       \* the bytes received by the opened file
    diag,           \* the diagnostics printed to stderr
    exit_status,    \* -1 while running
    emitted,        \* history: every byte signal_out encoded, in order
    flushes,        \* history: calls of write
    oob_stores,     \* history: stores at an index >= out_block_size
    write_failed,   \* history: some write returned less than asked
    pairs,          \* history: pairs emitted by each tone that was started
    nsig,           \* history: signals delivered
    sig_pc,         \* history: pc when the first signal arrived
    sig_tone,       \* history: tone when the first signal arrived
    probe           \* the last application of a pure function (PureSpec)

vars ==
    << pc, arg_b, filename, symbol, sample_rate, rand_seed, noise_floor,
       noise_signal, gain, out_block_size, out_block_pos, out_block, heap, fd,
       do_exit, handlers, tone, t, end, rand_state, out_stdout, out_file,
       diag, exit_status, emitted, flushes, oob_stores, write_failed, pairs,
       nsig, sig_pc, sig_tone, probe >>

inputs == << arg_b, filename, symbol, sample_rate, rand_seed, noise_floor,
             noise_signal, gain, probe >>
sink == << out_block_pos, out_block, out_stdout, out_file, emitted, flushes,
           oob_stores, write_failed >>
sighist == << nsig, sig_pc, sig_tone >>

Terminal == { "done", "exited", "crashed" }

\* the stream the descriptor fd writes to
dest == IF fd = STDOUT_FILENO THEN out_stdout ELSE out_file

Init ==
    /\ pc = "main"
    /\ arg_b \in BlockSizeArgs
    /\ filename \in Filenames
    /\ \E c \in RunInputs : symbol = c.symbol /\ sample_rate = c.sample_rate
    /\ rand_seed \in 1 .. MaxSeed
    /\ noise_floor = 200
    /\ noise_signal = 100
    /\ gain = 1000
    /\ out_block_size = DEFAULT_BUF_LENGTH
    /\ out_block_pos = 0
    /\ out_block = << >>
    /\ heap = "none"
    /\ fd = 0 - 1
    /\ do_exit = FALSE
    /\ handlers = FALSE
    /\ tone = 1
    /\ t = 0
    /\ end = 0
    /\ rand_state = 1
    /\ out_stdout = << >>
    /\ out_file = << >>
    /\ diag = { }
    /\ exit_status = 0 - 1
    /\ emitted = << >>
    /\ flushes = 0
    /\ oob_stores = 0
    /\ write_failed = FALSE
    /\ pairs = << >>
    /\ nsig = 0
    /\ sig_pc = "none"
    /\ sig_tone = 0
    /\ probe = [op |-> "none"]

(***************************************************************************)
(* main                                                                    *)
(***************************************************************************)
\* a main that goes on to gen when no positional argument is given
MainNoFilename_FallThrough ==
    /\ pc = "main"
    /\ filename = ""
    /\ diag' = diag \cup {"Output to stdout."}
    /\ handlers' = TRUE
    /\ rand_state' = rand_seed
    /\ pc' = "gen"
    /\ UNCHANGED << inputs, sink, sighist, out_block_size, heap, fd, do_exit,
                    tone, t, end, exit_status, pairs >>

\* no positional argument: "Output to stdout." and exit(0)
MainNoFilename ==
    /\ pc = "main"
    /\ filename = ""
    /\ \E n \in (IF arg_b = << >> THEN {out_block_size} ELSE to_size_t(arg_b[1])) :
          out_block_size' = n
    /\ diag' = diag \cup {"Output to stdout."}
    /\ exit_status' = 0
    /\ pc' = "exited"
    /\ UNCHANGED << inputs, sink, sighist, heap, fd, do_exit, handlers, tone,
                    t, end, rand_state, pairs >>

\* more than one positional argument: usage() and exit(1)
MainExtraArguments ==
    /\ pc = "main"
    /\ filename = "out.cu8 extra"
    /\ \E n \in (IF arg_b = << >> THEN {out_block_size} ELSE to_size_t(arg_b[1])) :
          out_block_size' = n
    /\ diag' = diag \cup {"Extra arguments?", "usage"}
    /\ exit_status' = 1
    /\ pc' = "exited"
    /\ UNCHANGED << inputs, sink, sighist, heap, fd, do_exit, handlers, tone,
                    t, end, rand_state, pairs >>

\* one positional argument: the block size is checked, the handler installed
\* and rand seeded; gen is entered
MainStart ==
    /\ pc = "main"
    /\ filename \in {"-", "out.cu8"}
    /\ \E n \in (IF arg_b = << >> THEN {out_block_size} ELSE to_size_t(arg_b[1])) :
          IF BlockSizeOutOfRange(n)
          THEN /\ out_block_size' = DEFAULT_BUF_LENGTH
               /\ diag' = diag \cup {"Output block size wrong value, falling back to default"}
          ELSE /\ out_block_size' = n
               /\ diag' = diag
    /\ handlers' = TRUE
    /\ rand_state' = rand_seed
    /\ pc' = "gen"
    /\ UNCHANGED << inputs, sink, sighist, heap, fd, do_exit, tone, t, end,
                    exit_status, pairs >>

(***************************************************************************)
(* The signal handler                                                      *)
(***************************************************************************)
\* where the program is, told apart inside a tone: "tone_end" once the sample
\* loop of add_sine / add_noise has run out and the call is about to return
ProgramPoint ==
    IF pc \in {"add_sine", "add_noise"} /\ t >= end THEN "tone_end" ELSE pc

\* sighandler: runs between any two steps of the program once installed
Signal ==
    /\ handlers
    /\ pc \notin Terminal
    /\ nsig < MaxSignals
    /\ do_exit' = TRUE
    /\ diag' = diag \cup {"Signal caught, exiting!"}
    /\ nsig' = nsig + 1
    /\ sig_pc' = IF nsig = 0 THEN ProgramPoint ELSE sig_pc
    /\ sig_tone' = IF nsig = 0 THEN tone ELSE sig_tone
    /\ UNCHANGED << inputs, sink, pc, out_block_size, heap, fd, handlers,
                    tone, t, end, rand_state, exit_status, pairs >>

(***************************************************************************)
(* signal_out                                                              *)
(***************************************************************************)
\* what write(fd, out_block, size) returns: all of the block, a part of it, or
\* -1; a descriptor that was never opened only fails
WriteResults(f, size) ==
    IF f < 0 THEN {0 - 1} ELSE {size, size \div 2, 0 - 1}

\* signal_out(i, q): encodes the pair, stores it at the cursor and writes the
\* block when the cursor equals the block size.  A store at an index >=
\* out_block_size is outside the allocation: the process is killed there or
\* goes on with the byte stored in foreign memory.
SignalOut(i, q) ==
    LET i8 == encode(i)
        q8 == encode(q)
        in1 == out_block_pos < out_block_size
        in2 == out_block_pos + 1 < out_block_size
        nOob == (IF in1 THEN 0 ELSE 1) + (IF in2 THEN 0 ELSE 1)
        blk == out_block \o (IF in1 THEN << i8 >> ELSE << >>)
                         \o (IF in2 THEN << q8 >> ELSE << >>)
        pos2 == out_block_pos + 2
    IN  \/ /\ nOob > 0
           /\ pc' = "crashed"
           /\ exit_status' = 139
           /\ oob_stores' = oob_stores + 1
           /\ UNCHANGED << out_block_pos, out_block, out_stdout, out_file,
                           emitted, flushes, write_failed, pairs >>
        \/ /\ pc' = pc
           /\ exit_status' = exit_status
           /\ oob_stores' = oob_stores + nOob
           /\ emitted' = emitted \o << i8, q8 >>
           /\ pairs' = [pairs EXCEPT ![Len(pairs)] = @ + 1]
           /\ IF BlockFull(pos2, out_block_size)
              THEN \E n \in WriteResults(fd, out_block_size) :
                     LET sent == IF n > 0 THEN SubSeq(blk, 1, n) ELSE << >>
                     IN  /\ out_stdout' = IF fd = STDOUT_FILENO
                                          THEN out_stdout \o sent ELSE out_stdout
                         /\ out_file' = IF fd = STDOUT_FILENO
                                        THEN out_file ELSE out_file \o sent
                         /\ write_failed' = (write_failed \/ n < out_block_size)
                         /\ flushes' = flushes + 1
                         /\ out_block_pos' = 0
                         /\ out_block' = << >>
              ELSE /\ out_block_pos' = pos2
                   /\ out_block' = blk
                   /\ UNCHANGED << out_stdout, out_file, write_failed, flushes >>

(***************************************************************************)
(* add_noise and add_sine                                                  *)
(***************************************************************************)
\* one iteration of add_noise's loop
AddNoiseSample ==
    /\ pc = "add_noise"
    /\ t < end
    /\ LET r1 == rand_next(rand_state)
           r2 == rand_next(r1)
           x == noise_term(r1, noise_floor)
           y == noise_term(r2, noise_floor)
       IN  /\ rand_state' = r2
           /\ SignalOut(x, y)
    /\ t' = IF pc' = "crashed" THEN t ELSE t + 1
    /\ UNCHANGED << inputs, sighist, out_block_size, heap, fd, do_exit,
                    handlers, tone, end, diag >>

\* a tone loop that never steps
NextTone_Stay(k) == k

\* ++tone of the tone loop
NextTone(k) == k + 1

\* add_noise returns and the tone loop steps to the next event
AddNoiseReturn ==
    /\ pc = "add_noise"
    /\ t >= end
    /\ tone' = NextTone(tone)
    /\ pc' = "loop"
    /\ UNCHANGED << inputs, sink, sighist, out_block_size, heap, fd, do_exit,
                    handlers, t, end, rand_state, diag, exit_status, pairs >>

\* the ramp in of add_sine, in 1/100
att_in(ti) == IF ti < att_steps THEN ti ELSE 100
\* a ramp out that rises toward the end of the tone
att_out_Rising(ti, e) == IF ti + att_steps > e THEN 100 - (e - ti) ELSE 100
\* the ramp out of add_sine, in 1/100
att_out(ti, e) == IF ti + att_steps > e THEN e - ti ELSE 100

\* lut_osc * gain * att * att_in * att_out, in milli
sine_term(osc, g, att, ti, e) ==
    Trunc(Trunc(Trunc(Trunc(osc * g, 1000) * att, 1000) * att_in(ti), 100)
              * att_out(ti, e), 100)

\* one iteration of add_sine's loop
AddSineSample ==
    /\ pc = "add_sine"
    /\ t < end
    /\ LET hz == symbol[tone].hz
           att == db_to_mag(symbol[tone].db)
           r1 == rand_next(rand_state)
           r2 == rand_next(r1)
           x == sine_term(lut_oscc(hz, sample_rate, t), gain, att, t, end)
                  + noise_term(r1, noise_signal)
           y == sine_term(lut_oscs(hz, sample_rate, t), gain, att, t, end)
                  + noise_term(r2, noise_signal)
       IN  /\ rand_state' = r2
           /\ SignalOut(x, y)
    /\ t' = IF pc' = "crashed" THEN t ELSE t + 1
    /\ UNCHANGED << inputs, sighist, out_block_size, heap, fd, do_exit,
                    handlers, tone, end, diag >>

\* add_sine returns and the tone loop steps to the next event
AddSineReturn ==
    /\ pc = "add_sine"
    /\ t >= end
    /\ tone' = NextTone(tone)
    /\ pc' = "loop"
    /\ UNCHANGED << inputs, sink, sighist, out_block_size, heap, fd, do_exit,
                    handlers, t, end, rand_state, diag, exit_status, pairs >>

(***************************************************************************)
(* gen                                                                     *)
(***************************************************************************)
\* what open(outpath, O_CREAT | O_TRUNC | O_WRONLY) returns
OpenResults == {3, 0 - 1}

\* the destination is chosen and opened, the buffer allocated
GenOpen ==
    /\ pc = "gen"
    /\ \E f \in (IF filename = "-" THEN {STDOUT_FILENO} ELSE OpenResults) :
          fd' = f
    /\ \E ok \in BOOLEAN :
          IF ok
          THEN /\ heap' = "allocated"
               /\ pc' = "loop"
               /\ UNCHANGED << diag, exit_status >>
          ELSE /\ heap' = "null"
               /\ diag' = diag \cup {"Failed to allocate output buffer"}
               /\ exit_status' = 1
               /\ pc' = "exited"
    /\ UNCHANGED << inputs, sink, sighist, out_block_size, do_exit, handlers,
                    tone, t, end, rand_state, pairs >>

\* the head of the tone loop: tone->us && !do_exit, then the branch on tone->db
GenLoop ==
    /\ pc = "loop"
    /\ IF LoopContinues(symbol[tone].us, do_exit)
       THEN /\ pc' = IF NoiseOnly(symbol[tone].db)
                     THEN "add_noise" ELSE "add_sine"
            /\ end' = sample_count(symbol[tone].us, sample_rate)
            /\ t' = 0
            /\ pairs' = Append(pairs, 0)
       ELSE /\ pc' = "finish"
            /\ UNCHANGED << end, t, pairs >>
    /\ UNCHANGED << inputs, sink, sighist, out_block_size, heap, fd, do_exit,
                    handlers, tone, rand_state, diag, exit_status >>

\* the end of gen: the elapsed time is printed on standard output, the buffer
\* freed and a file closed; main returns.  free() of a block whose neighbours
\* were overwritten may abort the process, and the text then may stay in
\* stdio's buffer.
GenFinish ==
    /\ pc = "finish"
    /\ \E ms \in {0, 1} :
         \/ /\ out_stdout' = out_stdout \o ElapsedText(ms)
            /\ heap' = "freed"
            /\ pc' = "done"
            /\ exit_status' = 0
         \/ /\ oob_stores > 0
            /\ out_stdout' \in {out_stdout, out_stdout \o ElapsedText(ms)}
            /\ heap' = "freed"
            /\ pc' = "crashed"
            /\ exit_status' = 134
    /\ UNCHANGED << inputs, sighist, out_block_size, out_block_pos, out_block,
                    out_file, emitted, flushes, oob_stores, write_failed, fd,
                    do_exit, handlers, tone, t, end, rand_state, diag, pairs >>

Next ==
    \/ MainNoFilename
    \/ MainExtraArguments
    \/ MainStart
    \/ GenOpen
    \/ GenLoop
    \/ AddNoiseSample
    \/ AddNoiseReturn
    \/ AddSineSample
    \/ AddSineReturn
    \/ GenFinish
    \/ Signal

Spec == Init /\ [][Next]_vars

(***************************************************************************)
(* The pure functions applied to grids of arguments                        *)
(***************************************************************************)
\* no run is in progress: one function is applied to one argument
PureInit ==
    /\ pc = "probe"
    /\ arg_b = << >>
    /\ filename = ""
    /\ symbol = << Tone(0, 0, 0) >>
    /\ sample_rate = DEFAULT_SAMPLE_RATE
    /\ rand_seed = 1
    /\ noise_floor = 200
    /\ noise_signal = 100
    /\ gain = 1000
    /\ out_block_size = DEFAULT_BUF_LENGTH
    /\ out_block_pos = 0
    /\ out_block = << >>
    /\ heap = "none"
    /\ fd = 0 - 1
    /\ do_exit = FALSE
    /\ handlers = FALSE
    /\ tone = 1
    /\ t = 0
    /\ end = 0
    /\ rand_state = 1
    /\ out_stdout = << >>
    /\ out_file = << >>
    /\ diag = { }
    /\ exit_status = 0 - 1
    /\ emitted = << >>
    /\ flushes = 0
    /\ oob_stores = 0
    /\ write_failed = FALSE
    /\ pairs = << >>
    /\ nsig = 0
    /\ sig_pc = "none"
    /\ sig_tone = 0
    /\ probe = [op |-> "none"]

run == << pc, arg_b, filename, symbol, sample_rate, rand_seed, noise_floor,
          noise_signal, gain, out_block_size, out_block_pos, out_block, heap,
          fd, do_exit, handlers, tone, t, end, rand_state, out_stdout,
          out_file, diag, exit_status, emitted, flushes, oob_stores,
          write_failed, pairs, nsig, sig_pc, sig_tone >>

\* signal_out's encoding of one component, v in 1/1000
ApplyEncode ==
    /\ probe.op = "none"
    /\ \E v \in (0 - MaxMilli) .. MaxMilli :
          probe' = [op |-> "encode", arg |-> v, out |-> encode(v)]
    /\ UNCHANGED run

\* signal_out's encoding of one component far outside [-1, 1]
ApplyEncodeWhole ==
    /\ probe.op = "none"
    /\ \E v \in WholeSamples : \E b \in encode_whole(v) :
          probe' = [op |-> "encode_whole", arg |-> v, out |-> b]
    /\ UNCHANGED run

\* add_sine's ramps att_in and att_out at sample ti of a tone of e samples
ApplyRamp ==
    /\ probe.op = "none"
    /\ \E e \in 1 .. MaxRampTotal : \E ti \in 0 .. (e - 1) :
          probe' = [op |-> "ramp", ti |-> ti, e |-> e,
                    att_in |-> att_in(ti), att_out |-> att_out(ti, e)]
    /\ UNCHANGED run

\* main's -g option
ApplySinePkLevel ==
    /\ probe.op = "none"
    /\ \E a \in LevelArgs :
          probe' = [op |-> "sine_pk_level", arg |-> a, out |-> sine_pk_level(a)]
    /\ UNCHANGED run

\* main's -n and -N options
ApplyNoisePpLevel ==
    /\ probe.op = "none"
    /\ \E a \in LevelArgs :
          probe' = [op |-> "noise_pp_level", arg |-> a, out |-> noise_pp_level(a)]
    /\ UNCHANGED run

PureNext ==
    \/ ApplyEncode
    \/ ApplyEncodeWhole
    \/ ApplyRamp
    \/ ApplySinePkLevel
    \/ ApplyNoisePpLevel

PureSpec == PureInit /\ [][PureNext]_vars

(***************************************************************************)
(* Properties                                                              *)
(***************************************************************************)
IsPrefix(a, b) == Len(a) <= Len(b) /\ a = SubSeq(b, 1, Len(a))

\* the tone with index k was started and is no longer being synthesized
ToneOver(k) ==
    /\ k <= Len(pairs)
    /\ ~(k = tone /\ pc \in {"add_sine", "add_noise"} /\ t < end)

\* the sample bytes the destination has received once gen has ended normally
\* (on standard output the elapsed-time text follows them)
SampleBytesWritten ==
    IF fd = STDOUT_FILENO
    THEN Len(out_stdout) - (IF pc = "done" THEN Len(ElapsedText(0)) ELSE 0)
    ELSE Len(out_file)

\* C1 (as claimed): for every accepted block size, odd ones included, the
\* cursor stays below the block size after every signal_out call, no byte is
\* stored at an index >= out_block_size, and every time the stored bytes
\* fill the block it has been written once.
C1_CursorWithinCapacity ==
    heap = "allocated" =>
        /\ out_block_pos < out_block_size
        /\ oob_stores = 0
        /\ flushes = Len(emitted) \div out_block_size

\* C2 (as claimed): every tone the engine started and is done with emitted
\* exactly floor(duration_us * sample_rate / 1000000) pairs.
C2_ToneSampleCount ==
    \A k \in 1 .. Len(pairs) :
        ToneOver(k) => pairs[k] = sample_count(symbol[k].us, sample_rate)

\* C3: a signal that arrives before the first tone is processed leaves the
\* run with no pair emitted; one that arrives after the first tone was
\* processed and before the second starts leaves it with exactly the first
\* tone's pairs, floor(duration_us * sample_rate / 1000000) of them.
C3_CancelAtBoundary ==
    /\ (sig_tone = 1 /\ sig_pc \in {"gen", "loop"}) =>
          (emitted = << >> /\ pairs = << >>)
    /\ ((sig_tone = 2 /\ sig_pc = "loop") \/ (sig_tone = 1 /\ sig_pc = "tone_end")) =>
          /\ Len(pairs) = 1
          /\ pairs[1] = sample_count(symbol[1].us, sample_rate)
          /\ Len(emitted) = 2 * pairs[1]

\* C3 witness: the run is over, the signal came between the first tone and a
\* second tone that is no terminator, and the first tone's pairs were emitted
C3_Witness ==
    /\ pc = "done"
    /\ sig_tone = 2
    /\ sig_pc = "loop"
    /\ symbol[2].us # 0
    /\ Len(emitted) = 2 * sample_count(symbol[1].us, sample_rate)
    /\ Len(emitted) > 0

\* C4 (as claimed): when the signal arrives while a tone is being
\* synthesized, that tone is still emitted in full and no later tone is
\* started.
C4_CancelMidTone ==
    (sig_pc \in {"add_sine", "add_noise"}) =>
        /\ Len(pairs) = sig_tone
        /\ ToneOver(sig_tone) =>
              pairs[sig_tone] = sample_count(symbol[sig_tone].us, sample_rate)

\* C5 (as claimed): block_size pairs written to an empty sink give exactly
\* one flush and the cursor at zero; block_size - 1 pairs give no flush.
C5_FlushAtBlockSizePairs ==
    heap = "allocated" =>
        /\ Len(emitted) = 2 * out_block_size =>
              (flushes = 1 /\ out_block_pos = 0)
        /\ Len(emitted) = 2 * (out_block_size - 1) => flushes = 0

\* C5 (amended): the block size counts bytes, two per pair.  When exactly
\* out_block_size bytes (out_block_size / 2 pairs) have been written to an
\* empty sink there has been exactly one flush and the cursor is zero; while
\* fewer bytes have been written there has been no flush and the cursor is
\* the number of bytes written.
C5_FlushAtBlockSizeBytes ==
    heap = "allocated" =>
        /\ Len(emitted) = out_block_size => (flushes = 1 /\ out_block_pos = 0)
        /\ Len(emitted) < out_block_size =>
              (flushes = 0 /\ out_block_pos = Len(emitted))

\* C5 witness: exactly out_block_size bytes were written and flushed at once
C5_Witness ==
    /\ heap = "allocated"
    /\ Len(emitted) = out_block_size
    /\ flushes = 1
    /\ out_block_pos = 0

\* C6 (as claimed): when gen has ended after emitting B bytes, the
\* destination has received exactly out_block_size * floor(B / out_block_size)
\* sample bytes.
C6_WholeBlocksOnly ==
    pc = "done" =>
        SampleBytesWritten
            = out_block_size * (Len(emitted) \div out_block_size)

\* C7 (as claimed): for standard output and for a file alike, the bytes the
\* destination has received are at every point a prefix of the encoded
\* bytes emitted so far.
C7_DestinationIsPrefix ==
    IsPrefix(dest, emitted)

\* C8 (as claimed): when the destination cannot be opened, the run ends at
\* once with a non-zero exit status and no tone is synthesized.
C8_OpenFailureIsFatal ==
    (heap # "none" /\ fd < 0) =>
        /\ pc = "exited"
        /\ exit_status > 0
        /\ emitted = << >>

\* C9 (as claimed): once a write of a block has failed or come short, no
\* further sample is synthesized or written, and the run does not end with a
\* success status.
C9_WriteFailureIsFatal ==
    [][write_failed =>
          /\ emitted' = emitted
          /\ flushes' = flushes
          /\ (pc' \in Terminal => exit_status' # 0)]_vars

ExpectedPair(tn, ti, rs) ==
    LET e == sample_count(tn.us, sample_rate)
        att == db_to_mag(tn.db)
        r1 == rand_next(rs)
        r2 == rand_next(r1)
        x == IF tn.db < NOISE_ONLY_DB
             THEN noise_term(r1, noise_floor)
             ELSE sine_term(lut_oscc(tn.hz, sample_rate, ti), gain, att, ti, e)
                    + noise_term(r1, noise_signal)
        y == IF tn.db < NOISE_ONLY_DB
             THEN noise_term(r2, noise_floor)
             ELSE sine_term(lut_oscs(tn.hz, sample_rate, ti), gain, att, ti, e)
                    + noise_term(r2, noise_signal)
    IN  << encode(x), encode(y) >>

\* the encoded bytes of the samples lo .. hi - 1 of the tone tn, the generator
\* being in state rs before sample lo, and the state of the generator after
\* them
RECURSIVE ExpectedTone(_, _, _, _)
ExpectedTone(tn, lo, hi, rs) ==
    IF hi <= lo THEN [bytes |-> << >>, rs |-> rs]
    ELSE IF hi = lo + 1
    THEN [bytes |-> ExpectedPair(tn, lo, rs), rs |-> rand_next(rand_next(rs))]
    ELSE LET mid == (lo + hi) \div 2
             left == ExpectedTone(tn, lo, mid, rs)
             right == ExpectedTone(tn, mid, hi, left.rs)
         IN  [bytes |-> left.bytes \o right.bytes, rs |-> right.rs]

\* the encoded bytes a run emits from tone k on, with the generator in state
\* rs, when nothing cuts the run short: a function of the timeline sym and
\* the configuration alone
RECURSIVE ExpectedFrom(_, _, _)
ExpectedFrom(sym, k, rs) ==
    IF sym[k].us = 0 THEN << >>
    ELSE LET first == ExpectedTone(sym[k], 0,
                                   sample_count(sym[k].us, sample_rate), rs)
         IN  first.bytes \o ExpectedFrom(sym, k + 1, first.rs)

\* the whole blocks of a byte sequence
WholeBlocks(s) == SubSeq(s, 1, out_block_size * (Len(s) \div out_block_size))

\* C11 (as claimed): the output stream of a run that was not cancelled is
\* determined by the seed, the timeline and the configuration: it is the
\* whole blocks of the encoded sequence they give, so two such runs deliver
\* identical bytes.
C11_Reproducible ==
    (pc = "done" /\ nsig = 0) =>
        dest = WholeBlocks(ExpectedFrom(symbol, 1, rand_seed))

\* n / d rounded to the nearest integer, halves away from zero, as round()
RoundDiv(n, d) ==
    IF n >= 0 THEN (2 * n + d) \div (2 * d)
    ELSE 0 - ((2 * (0 - n) + d) \div (2 * d))

\* C12 (as claimed): each component v is encoded to
\* clamp(round((v + 1.0) * 127.5), 0, 255), for every v of the grid
\* -1.5 .. 1.5 in steps of 1/1000.
C12_EncodeRounds ==
    probe.op = "encode" =>
        probe.out = bound(RoundDiv((probe.arg + 1000) * 1275, 10000))

\* C13 (as claimed): every value below -1 encodes to 0, every value above 1
\* to 255, and every stored byte lies in [0, 255].
C13_EncodeSaturates ==
    /\ probe.op \in {"encode", "encode_whole"} =>
          /\ probe.out >= 0
          /\ probe.out <= 255
    /\ probe.op = "encode" =>
          /\ probe.arg < -1000 => probe.out = 0
          /\ probe.arg > 1000 => probe.out = 255
    /\ probe.op = "encode_whole" =>
          /\ probe.arg < -1 => probe.out = 0
          /\ probe.arg > 1 => probe.out = 255

\* the timeline sym with the frequency of every event below -24 dB set to 0
NoiseFrequenciesZeroed(sym) ==
    [k \in 1 .. Len(sym) |->
        IF sym[k].db < NOISE_ONLY_DB
        THEN [sym[k] EXCEPT !.hz = 0] ELSE sym[k]]

\* C14: an event is synthesized by add_noise exactly when its level is below
\* -24 dB and by add_sine when it is -24 dB or higher; and the bytes a run
\* has emitted when it leaves the tone loop are a prefix of the bytes the same
\* timeline gives
\* with the frequency of every event below -24 dB replaced by 0, so they do
\* not depend on those frequencies.
C14_NoiseOnlyBelowThreshold ==
    /\ pc = "add_noise" => symbol[tone].db < -24
    /\ pc = "add_sine" => symbol[tone].db >= -24
    /\ pc = "finish" =>
          IsPrefix(emitted,
                   ExpectedFrom(NoiseFrequenciesZeroed(symbol), 1, rand_seed))

\* C14 witness: a finished run that synthesized an event of -25 dB with a
\* frequency of 10000 Hz by add_noise and one of -24 dB by add_sine
C14_Witness ==
    /\ pc = "done"
    /\ symbol[1].db = -25
    /\ symbol[1].hz = 10000
    /\ symbol[2].db = -24
    /\ Len(pairs) = 2
    /\ pairs[1] > 0
    /\ pairs[2] > 0

\* the index of the first event of a timeline with duration_us = 0
FirstTerminator(sym) ==
    CHOOSE k \in 1 .. Len(sym) :
        /\ sym[k].us = 0
        /\ \A j \in 1 .. (k - 1) : sym[j].us # 0

RECURSIVE SumSeq(_)
SumSeq(s) == IF s = << >> THEN 0 ELSE Head(s) + SumSeq(Tail(s))

\* C15: the timeline is read front to back once and reading stops at the
\* first event with duration_us = 0: the k-th event started is the event at
\* index k, every started event lies before the first terminator, the tone
\* index never passes the terminator, and every sample pair emitted belongs
\* to a started event, so the terminator and the events stored after it emit
\* nothing, cancelled or not.
C15_TimelineReadOnce ==
    /\ tone <= FirstTerminator(symbol)
    /\ Len(pairs) < FirstTerminator(symbol)
    /\ Len(pairs) \in {tone - 1, tone}
    /\ pc \in {"add_noise", "add_sine"} =>
          /\ Len(pairs) = tone
          /\ symbol[tone].us # 0
    /\ pc = "loop" => Len(pairs) = tone - 1
    /\ Len(emitted) = 2 * SumSeq(pairs)

\* C15 witness: a finished run over a timeline that stores an event after
\* its terminator; the one event before the terminator was synthesized
C15_Witness ==
    /\ pc = "done"
    /\ Len(symbol) = 3
    /\ symbol[2].us = 0
    /\ symbol[3].us # 0
    /\ Len(pairs) = 1
    /\ pairs[1] > 0
    /\ tone = 2

\* C16: the envelope att_in * att_out (in 1/10000) stays within [0, 1] at
\* every sample index; for a tone of at least 2 * att_steps samples it does
\* not decrease from one index to the next over the first att_steps indices,
\* is 1 in the middle, and does not increase from one index to the next over
\* the last att_steps indices.
C16_RampEnvelope ==
    probe.op = "ramp" =>
        LET m == probe.att_in * probe.att_out
            nxt == att_in(probe.ti + 1) * att_out(probe.ti + 1, probe.e)
        IN  /\ m >= 0
            /\ m <= 10000
            /\ probe.e >= 2 * att_steps =>
                  /\ probe.ti + 1 < att_steps => m <= nxt
                  /\ (probe.ti >= att_steps /\ probe.ti < probe.e - att_steps)
                        => m = 10000
                  /\ (probe.ti >= probe.e - att_steps /\ probe.ti + 1 < probe.e)
                        => m >= nxt

\* C16 witness: half way down the ramp out of a tone that has a middle
C16_Witness ==
    /\ probe.op = "ramp"
    /\ probe.e > 2 * att_steps
    /\ probe.ti = probe.e - 50
    /\ probe.att_in = 100
    /\ probe.att_out = 50

\* C17 (as claimed): every run of gen over a finite timeline that got its
\* buffer comes to its end by leaving the tone loop: when the process has
\* ended, gen had finished and the buffer was freed.
C17_GenFinishes ==
    (pc \in Terminal /\ heap \in {"allocated", "freed"}) =>
        /\ pc = "done"
        /\ heap = "freed"

\* C18: a -g argument that is zero or negative is taken as decibels and a
\* positive one as the multiplier itself, so an argument of exactly 0 gives
\* unity gain; a -n / -N argument of exactly 0 is taken as the multiplier and
\* gives amplitude 0, a negative one is taken as decibels.
C18_LevelBranches ==
    /\ probe.op = "sine_pk_level" =>
          /\ probe.arg <= 0 =>
                /\ probe.out = pow10_20(probe.arg)
                /\ probe.out > 0
                /\ probe.out <= 1000
          /\ probe.arg = 0 => probe.out = 1000
          /\ probe.arg > 0 => probe.out = probe.arg
    /\ probe.op = "noise_pp_level" =>
          /\ probe.arg = 0 => probe.out = 0
          /\ probe.arg > 0 => probe.out = (probe.arg * 1732) \div 1000
          /\ probe.arg < 0 =>
                /\ probe.out = (pow10_20(probe.arg) * 1732) \div 1000
                /\ probe.out > 0

\* C18 witness: the -g argument 0 has given unity gain
C18_Witness ==
    /\ probe.op = "sine_pk_level"
    /\ probe.arg = 0
    /\ probe.out = 1000

====
